---- MODULE Spec2Model ----
(***************************************************************************)
(* Jellyfin_Justwatch: the Jellyseerr webhook (request_handler.py), the    *)
(* TMDB watch-provider lookup and the TMDB-ID extractor                    *)
(* (jellyfin_checker.py, jellyfin.py) and the configuration they read      *)
(* (utils.py).                                                             *)
(*                                                                         *)
(* Python strings that the code inspects character by character (the       *)
(* provider names, the PROVIDER_LIST option, file names) are sequences of  *)
(* one-character strings.  Strings the code only compares or passes on     *)
(* (notification types, request ids, status tokens) are TLA+ strings.      *)
(***************************************************************************)
EXTENDS Integers, Sequences, FiniteSets, TLC

VARIABLES
    pc,         \* per invocation of webhook_listener: where it stands
    data,       \* per invocation: request.json, the notification payload
    tmdb_resp,  \* per invocation: what requests.get answered in get_providers
    gp,         \* per invocation: outcome of jellyfin_checker.get_providers
    seerr_resp, \* per invocation: what requests.post answered
    calls,      \* per invocation: the outbound HTTP calls issued, in order
    reply,      \* per invocation: the (json, http code) the handler returned
    exc,        \* per invocation: the exception that left webhook_listener
    filename,   \* argument of get_tmdbid_from_filename
    tmdbid_out  \* its return value

vars == <<pc, data, tmdb_resp, gp, seerr_resp, calls, reply, exc, filename, tmdbid_out>>

webhook_vars == <<pc, data, tmdb_resp, gp, seerr_resp, calls, reply, exc>>

extractor_vars == <<filename, tmdbid_out>>

----------------------------------------------------------------------------
(* Bounds *)

\* longest upstream flatrate list the lookup answers with
MaxFlatrate == 1

\* most fragments a file name is built from
MaxFragments == 6

----------------------------------------------------------------------------
(* Strings *)

RECURSIVE Concat(_)
\* "".join(parts)
Concat(parts) ==
    IF parts = <<>> THEN <<>> ELSE Head(parts) \o Concat(Tail(parts))

RECURSIVE Join(_, _)
\* sep.join(parts)
Join(sep, parts) ==
    IF parts = <<>> THEN <<>>
    ELSE IF Len(parts) = 1 THEN Head(parts)
    ELSE Head(parts) \o sep \o Join(sep, Tail(parts))

\* Python's `s in t` for two str values: s occurs in t as a substring
StrContains(s, t) ==
    \E k \in 0..(Len(t) - Len(s)) : SubSeq(t, k + 1, k + Len(s)) = s

----------------------------------------------------------------------------
(* utils.py: the configuration *)

\* the list write_default_config stores under PROVIDER_LIST
DefaultProviderList ==
    << <<"N", "e", "t", "f", "l", "i", "x", " ", "b", "a", "s", "i", "c", " ", "w", "i", "t", "h", " ", "A", "d", "s">>,
       <<"H", "u", "l", "u">>,
       <<"D", "i", "s", "n", "e", "y", " ", "P", "l", "u", "s">>,
       <<"A", "m", "a", "z", "o", "n", " ", "P", "r", "i", "m", "e", " ", "V", "i", "d", "e", "o">>,
       <<"M", "a", "x">>,
       <<"A", "p", "p", "l", "e", " ", "T", "V">>,
       <<"A", "p", "p", "l", "e", " ", "T", "V", " ", "P", "l", "u", "s">> >>

\* repr() of a str that holds no quote and no backslash
PyRepr(s) == <<"'">> \o s \o <<"'">>

\* str() of a list of such strings: "['a', 'b']"
PyStrOfList(l) ==
    <<"[">> \o Join(<<",", " ">>, [k \in 1..Len(l) |-> PyRepr(l[k])]) \o <<"]">>

\* ConfigParser stores every value as str(value) and config.get returns that
\* str: the option written from a list is read back as the list's text
get_config_value_PROVIDER_LIST == PyStrOfList(DefaultProviderList)

----------------------------------------------------------------------------
(* jellyfin_checker.py: the provider lookup *)

PROVIDER_LIST == get_config_value_PROVIDER_LIST

NetflixAds == DefaultProviderList[1]
Hulu == DefaultProviderList[2]
SomeObscureService ==
    <<"S", "o", "m", "e", "O", "b", "s", "c", "u", "r", "e", "S", "e", "r", "v", "i", "c", "e">>
Netflix == <<"N", "e", "t", "f", "l", "i", "x">>
HuluLower == <<"h", "u", "l", "u">>

\* provider names TMDB may answer with
UpstreamNames == {NetflixAds, Hulu, SomeObscureService, Netflix, HuluLower}

RECURSIVE SeqsUpTo(_, _)
\* the sequences over S of length at most n
SeqsUpTo(S, n) ==
    IF n = 0 THEN {<<>>}
    ELSE LET shorter == SeqsUpTo(S, n - 1)
         IN  shorter \cup {Append(s, x) : s \in shorter, x \in S}

\* what requests.get can come back with: an exception of the transport, or
\* an HTTP answer with a status and a body.  Bodies: not JSON; JSON without
\* "results"; without "US"; without "flatrate"; or with a flatrate list
TMDBResponses ==
    [kind : {"ConnectionError", "Timeout"}, status : {0}, body : {"none"}, flatrate : {<<>>}]
    \cup [kind : {"http"}, status : {404, 500}, body : {"malformed", "no_results"}, flatrate : {<<>>}]
    \cup [kind : {"http"}, status : {200},
          body : {"malformed", "no_results", "no_US", "no_flatrate"}, flatrate : {<<>>}]
    \cup [kind : {"http"}, status : {200}, body : {"flatrate"},
          flatrate : SeqsUpTo(UpstreamNames, MaxFlatrate)]

\* response.raise_for_status(): HTTPError for 4xx and 5xx
raise_for_status(resp) == resp.status >= 400 /\ resp.status < 600

\* the `if provider["provider_name"] in PROVIDER_LIST` of the comprehension
in_PROVIDER_LIST(name) == StrContains(name, PROVIDER_LIST)

\* get_providers: [state |-> "returned", value |-> the list] or
\* [state |-> "raised", exc |-> the exception that leaves it]
get_providers(resp) ==
    IF resp.kind # "http" \/ raise_for_status(resp)
    THEN \* except requests.RequestException: return []
         [state |-> "returned", value |-> <<>>, exception |-> "none"]
    ELSE IF resp.body = "malformed"
    THEN \* response.json() stands outside the try block
         [state |-> "raised", value |-> <<>>, exception |-> "JSONDecodeError"]
    ELSE IF resp.body \in {"no_results", "no_US", "no_flatrate"}
    THEN [state |-> "returned", value |-> <<>>, exception |-> "none"]
    ELSE [state |-> "returned",
          value |-> SelectSeq(resp.flatrate, in_PROVIDER_LIST),
          exception |-> "none"]

----------------------------------------------------------------------------
(* request_handler.py: the webhook *)

\* concurrent invocations of webhook_listener the HTTP server runs
Invocations == {1, 2}

NotificationTypes == {"TEST_NOTIFICATION", "MEDIA_PENDING"}

\* request.json.  media: the key is absent, is null, or holds an object;
\* tmdbId (of a media object): absent, null, "" or an id; request: absent, or
\* an object with request_id
Payloads ==
    {d \in [notification_type : NotificationTypes,
            media : {"absent", "null", "object"},
            tmdbId : {"absent", "null", "", "603"},
            request : {"absent", "object"},
            request_id : {"absent", "42", "43"}] :
        /\ d.media # "object" => d.tmdbId = "absent"
        /\ (d.request = "absent") <=> (d.request_id = "absent")}

NoData ==
    [notification_type |-> "none", media |-> "absent", tmdbId |-> "absent",
     request |-> "absent", request_id |-> "absent"]

NoTMDBResponse == [kind |-> "none", status |-> 0, body |-> "none", flatrate |-> <<>>]

NotCalled == [state |-> "uncalled", value |-> <<>>, exception |-> "none"]

\* what requests.post can come back with
SeerrResponses ==
    [kind : {"ConnectionError", "Timeout"}, status : {0}]
    \cup [kind : {"http"}, status : {200, 404, 500}]

NoSeerrResponse == [kind |-> "none", status |-> 0]

NoReply == [status |-> "none", error |-> "none", providers |-> <<>>, code |-> 0]

\* the comparison against another constant
is_test_notification_other(d) == d.notification_type = "TEST"

\* data.get("notification_type") == "TEST_NOTIFICATION"
is_test_notification(d) == d.notification_type = "TEST_NOTIFICATION"

\* media = data.get("media", {}); tmdbid = media.get("tmdbId", {}):
\* "AttributeError" when media is null (None has no get), else the value,
\* with "{}" for the default
media_get_tmdbId(d) ==
    IF d.media = "null" THEN "AttributeError"
    ELSE IF d.media = "absent" THEN "{}"
    ELSE IF d.tmdbId = "absent" THEN "{}"
    ELSE d.tmdbId

\* a test against the default alone, `tmdbid == {}`
not_tmdbid_default_only(v) == v = "{}"

\* `not tmdbid`: {}, None and "" are falsy
not_tmdbid(v) == v \in {"{}", "null", ""}

\* check_movie_on_services, given what get_providers returned
check_movie_on_services(providers) ==
    IF providers # <<>> THEN <<TRUE, providers>> ELSE <<FALSE, <<>>>>

\* the request id kept in one module-level name that the latest
\* notification overwrites
request_id_of_global(i) ==
    IF \A j \in Invocations : data[j] = NoData \/ j = i
    THEN data[i].request_id
    ELSE data[CHOOSE j \in Invocations : j # i /\ data[j] # NoData].request_id

\* request_id = data["request"]["request_id"] of invocation i
request_id_of(i) == data[i].request_id

TMDBCall(tmdbid) == [api |-> "tmdb_get", key |-> tmdbid, token |-> "none"]

SeerrCall(request_id, status) ==
    [api |-> "seerr_post", key |-> request_id, token |-> status]

\* tmdbid_out before get_tmdbid_from_filename is called
Unset == <<"unset">>

Init ==
    /\ pc = [i \in Invocations |-> "idle"]
    /\ data = [i \in Invocations |-> NoData]
    /\ tmdb_resp = [i \in Invocations |-> NoTMDBResponse]
    /\ gp = [i \in Invocations |-> NotCalled]
    /\ seerr_resp = [i \in Invocations |-> NoSeerrResponse]
    /\ calls = [i \in Invocations |-> <<>>]
    /\ reply = [i \in Invocations |-> NoReply]
    /\ exc = [i \in Invocations |-> "none"]
    /\ filename = <<>>
    /\ tmdbid_out = Unset

\* webhook_listener from the POST to its first outbound call: the test
\* short-circuit, the TMDB-ID check, then the GET of get_providers is sent
Receive(i, d) ==
    /\ pc[i] = "idle"
    /\ data' = [data EXCEPT ![i] = d]
    /\ IF is_test_notification(d)
       THEN /\ reply' = [reply EXCEPT ![i] =
                    [status |-> "received", error |-> "none", providers |-> <<>>, code |-> 200]]
            /\ pc' = [pc EXCEPT ![i] = "done"]
            /\ UNCHANGED <<calls, exc>>
       ELSE IF media_get_tmdbId(d) = "AttributeError"
       THEN /\ exc' = [exc EXCEPT ![i] = "AttributeError"]
            /\ pc' = [pc EXCEPT ![i] = "crashed"]
            /\ UNCHANGED <<calls, reply>>
       ELSE IF not_tmdbid(media_get_tmdbId(d))
       THEN /\ reply' = [reply EXCEPT ![i] =
                    [status |-> "none", error |-> "No TMDB ID provided",
                     providers |-> <<>>, code |-> 400]]
            /\ pc' = [pc EXCEPT ![i] = "done"]
            /\ UNCHANGED <<calls, exc>>
       ELSE /\ calls' = [calls EXCEPT ![i] = Append(@, TMDBCall(media_get_tmdbId(d)))]
            /\ pc' = [pc EXCEPT ![i] = "lookup"]
            /\ UNCHANGED <<reply, exc>>
    /\ UNCHANGED <<tmdb_resp, gp, seerr_resp>>
    /\ UNCHANGED extractor_vars

\* the GET comes back: the rest of get_providers, check_movie_on_services,
\* the read of request_id, then the POST of update_request_status is sent
LookupReturn(i, r) ==
    /\ pc[i] = "lookup"
    /\ tmdb_resp' = [tmdb_resp EXCEPT ![i] = r]
    /\ gp' = [gp EXCEPT ![i] = get_providers(r)]
    /\ IF get_providers(r).state = "raised"
       THEN /\ exc' = [exc EXCEPT ![i] = get_providers(r).exception]
            /\ pc' = [pc EXCEPT ![i] = "crashed"]
            /\ UNCHANGED calls
       ELSE IF data[i].request = "absent"
       THEN /\ exc' = [exc EXCEPT ![i] = "KeyError"]
            /\ pc' = [pc EXCEPT ![i] = "crashed"]
            /\ UNCHANGED calls
       ELSE /\ calls' = [calls EXCEPT ![i] = Append(@,
                    SeerrCall(request_id_of(i),
                              IF check_movie_on_services(get_providers(r).value)[1]
                              THEN "decline" ELSE "approve"))]
            /\ pc' = [pc EXCEPT ![i] = "update"]
            /\ UNCHANGED exc
    /\ UNCHANGED <<data, seerr_resp, reply>>
    /\ UNCHANGED extractor_vars

\* the POST comes back: the rest of update_request_status (which only
\* prints) and the handler's return
UpdateReturn(i, r) ==
    /\ pc[i] = "update"
    /\ seerr_resp' = [seerr_resp EXCEPT ![i] = r]
    /\ IF r.kind # "http"
       THEN \* requests.post raised; nothing catches it
            /\ exc' = [exc EXCEPT ![i] = r.kind]
            /\ pc' = [pc EXCEPT ![i] = "crashed"]
            /\ UNCHANGED reply
       ELSE /\ reply' = [reply EXCEPT ![i] =
                    IF check_movie_on_services(gp[i].value)[1]
                    THEN [status |-> "rejected", error |-> "none",
                          providers |-> check_movie_on_services(gp[i].value)[2],
                          code |-> 200]
                    ELSE [status |-> "accepted", error |-> "none",
                          providers |-> <<>>, code |-> 200]]
            /\ pc' = [pc EXCEPT ![i] = "done"]
            /\ UNCHANGED exc
    /\ UNCHANGED <<data, tmdb_resp, gp, calls>>
    /\ UNCHANGED extractor_vars

Next ==
    \/ \E i \in Invocations, d \in Payloads : Receive(i, d)
    \/ \E i \in Invocations, r \in TMDBResponses : LookupReturn(i, r)
    \/ \E i \in Invocations, r \in SeerrResponses : UpdateReturn(i, r)

Spec == Init /\ [][Next]_vars

----------------------------------------------------------------------------
(* jellyfin_checker.py, jellyfin.py: the TMDB-ID extractor *)

Digits == {"0", "1", "2", "3", "4", "5", "6", "7", "8", "9"}

\* the text of the look-behind, "[tmdbid-"
TagOpen == <<"[", "t", "m", "d", "b", "i", "d", "-">>

\* the expression without its look-ahead, (?<=\[tmdbid-)\d+
regex_match_ends_no_lookahead(s, p) ==
    {e \in p..Len(s) :
        /\ p > Len(TagOpen)
        /\ SubSeq(s, p - Len(TagOpen), p - 1) = TagOpen
        /\ \A k \in p..e : s[k] \in Digits}

\* the regular expression (?<=\[tmdbid-)\d+(?=\]) tried at position p of s:
\* the ends e at which it can match.  The look-behind wants TagOpen right
\* before p, \d+ takes s[p..e], the look-ahead wants "]" at e + 1
regex_match_ends(s, p) ==
    {e \in p..Len(s) :
        /\ p > Len(TagOpen)
        /\ SubSeq(s, p - Len(TagOpen), p - 1) = TagOpen
        /\ \A k \in p..e : s[k] \in Digits
        /\ e + 1 <= Len(s)
        /\ s[e + 1] = "]"}

\* re.search(regex, s): None, or the span <<p, e>> of the match at the
\* smallest p at which the expression matches; \d+ is greedy, so among the
\* ends possible at p the largest
re_search(s) ==
    LET starts == {p \in 1..Len(s) : regex_match_ends(s, p) # {}}
    IN  IF starts = {} THEN <<>>
        ELSE LET p == CHOOSE q \in starts : \A q2 \in starts : q <= q2
                 e == CHOOSE f \in regex_match_ends(s, p) :
                          \A f2 \in regex_match_ends(s, p) : f2 <= f
             IN  <<p, e>>

\* None, the value returned when nothing matches: no str equals it
None == <<"None">>

\* get_tmdbid_from_filename: match.group(0) if match else None
get_tmdbid_from_filename(s) ==
    IF re_search(s) = <<>> THEN None
    ELSE SubSeq(s, re_search(s)[1], re_search(s)[2])

\* the pieces file names are built from
Fragments ==
    {TagOpen, <<"1", "2", "3", "4", "5">>, <<"7">>, <<"]">>, <<"x">>}

\* file names: up to MaxFragments pieces, one after the other
Filenames == {Concat(fs) : fs \in SeqsUpTo(Fragments, MaxFragments)}

InitExtract ==
    /\ pc = [i \in Invocations |-> "idle"]
    /\ data = [i \in Invocations |-> NoData]
    /\ tmdb_resp = [i \in Invocations |-> NoTMDBResponse]
    /\ gp = [i \in Invocations |-> NotCalled]
    /\ seerr_resp = [i \in Invocations |-> NoSeerrResponse]
    /\ calls = [i \in Invocations |-> <<>>]
    /\ reply = [i \in Invocations |-> NoReply]
    /\ exc = [i \in Invocations |-> "none"]
    /\ filename \in Filenames
    /\ tmdbid_out = Unset

\* one call of get_tmdbid_from_filename(filename)
Extract ==
    /\ tmdbid_out = Unset
    /\ tmdbid_out' = get_tmdbid_from_filename(filename)
    /\ UNCHANGED filename
    /\ UNCHANGED webhook_vars

NextExtract == Extract

SpecExtract == InitExtract /\ [][NextExtract]_vars

----------------------------------------------------------------------------
(* Properties of the webhook, checked under Spec *)

Finished(i) == pc[i] \in {"done", "crashed"}

NonTest(d) == d # NoData /\ ~is_test_notification(d)

CarriesTmdbId(d) == d.media = "object" /\ d.tmdbId \notin {"absent", "null", ""}

CarriesRequestId(d) == d.request = "object"

Issued(i, call) == \E k \in 1..Len(calls[i]) : calls[i][k] = call

Token(providers) == IF providers # <<>> THEN "decline" ELSE "approve"

\* C1: for every non-test notification that carries a TMDB ID and a
\* request_id, once the lookup has returned its filtered list the handler
\* issues the status update with "decline" and answers "rejected" if the list
\* is non-empty, and otherwise issues "approve" and answers "accepted".
C1_DecisionAndAnswer ==
    \A i \in Invocations :
        (/\ Finished(i)
         /\ NonTest(data[i])
         /\ CarriesTmdbId(data[i])
         /\ CarriesRequestId(data[i])
         /\ gp[i].state = "returned")
        => IF gp[i].value # <<>>
           THEN /\ Issued(i, SeerrCall(data[i].request_id, "decline"))
                /\ ~Issued(i, SeerrCall(data[i].request_id, "approve"))
                /\ reply[i].status = "rejected"
           ELSE /\ Issued(i, SeerrCall(data[i].request_id, "approve"))
                /\ ~Issued(i, SeerrCall(data[i].request_id, "decline"))
                /\ reply[i].status = "accepted"

\* x equals an element of the list l
ListContains(x, l) == \E k \in 1..Len(l) : l[k] = x

\* whole-name, case-sensitive membership in the configured list of names
AllowListed(name) == ListContains(name, DefaultProviderList)

\* C2: get_providers returns exactly the upstream US flatrate names that are
\* elements of the allow-list, in upstream order; a name that is no element
\* of the allow-list never appears in the result.
C2_ExactAllowListFilter ==
    \A i \in Invocations :
        (/\ gp[i].state = "returned"
         /\ tmdb_resp[i].kind = "http"
         /\ tmdb_resp[i].status = 200
         /\ tmdb_resp[i].body = "flatrate")
        => gp[i].value = SelectSeq(tmdb_resp[i].flatrate, AllowListed)

\* C3: a TEST_NOTIFICATION is answered {status: "received"} with HTTP 200
\* and causes no outbound call, whatever else the payload holds.
C3_TestShortCircuit ==
    \A i \in Invocations :
        (data[i] # NoData /\ data[i].notification_type = "TEST_NOTIFICATION")
        => /\ pc[i] = "done"
           /\ reply[i].status = "received"
           /\ reply[i].code = 200
           /\ calls[i] = <<>>
           /\ exc[i] = "none"

\* a test notification that also carries a TMDB ID and a request id has been
\* handled
C3_Witness ==
    \E i \in Invocations :
        /\ data[i].notification_type = "TEST_NOTIFICATION"
        /\ CarriesTmdbId(data[i])
        /\ CarriesRequestId(data[i])
        /\ pc[i] = "done"

\* the payloads of C4: media absent, or media.tmdbId absent or empty
NoTmdbId(d) ==
    \/ d.media = "absent"
    \/ d.media = "object" /\ d.tmdbId \in {"absent", "", "null"}

C5_OneLookupThenOneUpdate ==
    \A i \in Invocations :
        (NonTest(data[i]) /\ CarriesTmdbId(data[i]) /\ CarriesRequestId(data[i]))
        => /\ Len(calls[i]) >= 1
           /\ calls[i][1] = TMDBCall(data[i].tmdbId)
           /\ Len(calls[i]) <= 2
           /\ Len(calls[i]) = 2
                => /\ tmdb_resp[i] # NoTMDBResponse
                   /\ \E t \in {"approve", "decline"} :
                          calls[i][2] = SeerrCall(data[i].request_id, t)
           /\ Finished(i) => Len(calls[i]) = 2

\* exceptions the transport of an outbound call raises
TransportExceptions == {"ConnectionError", "Timeout"}

\* C6: no failure of an outbound call (transport error, timeout, non-200
\* answer) leaves webhook_listener as an exception: the handler still
\* returns a JSON result.
C6_NoOutboundFailureEscapes ==
    \A i \in Invocations :
        (\/ tmdb_resp[i].kind \in TransportExceptions
         \/ tmdb_resp[i].kind = "http" /\ tmdb_resp[i].status # 200
         \/ seerr_resp[i].kind \in TransportExceptions
         \/ seerr_resp[i].kind = "http" /\ seerr_resp[i].status # 200)
        => exc[i] \notin TransportExceptions

\* the body of a 2xx answer is not JSON
MalformedBody(r) == r.kind = "http" /\ r.status = 200 /\ r.body = "malformed"

\* the lookup failed: network failure, non-2xx answer or malformed body
LookupFailed(r) ==
    \/ r.kind \in TransportExceptions
    \/ r.kind = "http" /\ r.status # 200
    \/ MalformedBody(r)

\* C7: get_providers never raises to its caller: network failure, non-2xx
\* answer and malformed JSON body each become a returned outcome.
C7_LookupNeverRaises ==
    \A i \in Invocations :
        (tmdb_resp[i] # NoTMDBResponse /\ LookupFailed(tmdb_resp[i]))
        => gp[i].state = "returned"

\* C8: what get_providers returns when the lookup failed differs from what
\* it returns when the lookup succeeded and found no allow-listed provider.
C8_FailureDistinguishable ==
    \A i, j \in Invocations :
        (/\ gp[i].state = "returned"
         /\ LookupFailed(tmdb_resp[i])
         /\ gp[j].state = "returned"
         /\ tmdb_resp[j] # NoTMDBResponse
         /\ ~LookupFailed(tmdb_resp[j])
         /\ SelectSeq(tmdb_resp[j].flatrate, AllowListed) = <<>>)
        => gp[i].value # gp[j].value

\* what an invocation owns
Locals(i) ==
    <<data[i], tmdb_resp[i], gp[i], seerr_resp[i], calls[i], reply[i], exc[i]>>

\* every status update an invocation has issued carries that invocation's
\* request_id and the token its own lookup result determines
C10_OwnRequestAndToken ==
    \A i \in Invocations :
        \A k \in 1..Len(calls[i]) :
            calls[i][k].api = "seerr_post"
            => /\ calls[i][k].key = data[i].request_id
               /\ calls[i][k].token = Token(gp[i].value)

\* a step of one invocation leaves what the other owns as it was
C10_NoInterference ==
    \A i \in Invocations : pc'[i] = pc[i] => Locals(i)' = Locals(i)

\* C10: under any interleaving of two invocations each status update carries
\* its own invocation's request_id and the token of its own lookup result,
\* and no invocation writes what the other owns.
C10_Isolation == []C10_OwnRequestAndToken /\ [][C10_NoInterference]_vars

\* both invocations have their status update in flight at once, for
\* different requests and with different tokens
C10_Witness ==
    /\ pc[1] = "update"
    /\ pc[2] = "update"
    /\ Issued(1, SeerrCall("42", "decline"))
    /\ Issued(2, SeerrCall("43", "approve"))

----------------------------------------------------------------------------
(* Properties of the extractor, checked under SpecExtract *)

\* the text [tmdbid-12345]
Tag12345 == TagOpen \o <<"1", "2", "3", "4", "5">> \o <<"]">>

\* the digit strings d for which [tmdbid-d] stands in s at position q
TagsAt(s, q) ==
    {SubSeq(s, q + Len(TagOpen), e) : e \in
        {f \in (q + Len(TagOpen))..(Len(s) - 1) :
            /\ SubSeq(s, q, q + Len(TagOpen) - 1) = TagOpen
            /\ \A k \in (q + Len(TagOpen))..f : s[k] \in Digits
            /\ s[f + 1] = "]"}}

\* s holds no substring of the form [tmdbid-<digits>]
NoTag(s) == \A q \in 1..Len(s) : TagsAt(s, q) = {}

\* the first substring of that form in s is [tmdbid-d]
FirstTagIs(s, d) ==
    \E q \in 1..Len(s) :
        /\ d \in TagsAt(s, q)
        /\ \A q2 \in 1..(q - 1) : TagsAt(s, q2) = {}

\* C9 as stated: "12345" whenever the string contains [tmdbid-12345] at any
\* position, None whenever it holds no substring [tmdbid-<digits>].
C9_AnyPosition ==
    tmdbid_out # Unset
    => /\ StrContains(Tag12345, filename) => tmdbid_out = <<"1", "2", "3", "4", "5">>
       /\ NoTag(filename) => tmdbid_out = None

\* C9, amended: get_tmdbid_from_filename returns "12345" whenever the first
\* substring of the form [tmdbid-<digits>] in the string is [tmdbid-12345],
\* at whatever position, and None whenever the string holds no substring of
\* that form; what it returns is always None or a string of digits.
C9_FirstTag ==
    tmdbid_out # Unset
    => /\ FirstTagIs(filename, <<"1", "2", "3", "4", "5">>)
            => tmdbid_out = <<"1", "2", "3", "4", "5">>
       /\ NoTag(filename) => tmdbid_out = None
       /\ \/ tmdbid_out = None
          \/ Len(tmdbid_out) >= 1 /\ \A k \in 1..Len(tmdbid_out) : tmdbid_out[k] \in Digits

\* the tag stands after other text, and the extractor has returned
C9_Witness ==
    /\ tmdbid_out = <<"1", "2", "3", "4", "5">>
    /\ FirstTagIs(filename, <<"1", "2", "3", "4", "5">>)
    /\ SubSeq(filename, 1, Len(Tag12345)) # Tag12345

====
